---------------------------- MODULE Spec2Model ----------------------------
(***************************************************************************)
(* Model of scripts/inputs/download_singlesamplerefs.py: the reference     *)
(* downloader that scans a SingleSample inputs JSON for gs:// URIs, maps   *)
(* them to local paths, expands .list manifests, copies the objects with   *)
(* gsutil and rewrites target JSON documents.                              *)
(*                                                                         *)
(* Strings are sequences of one-character strings, so that startswith,     *)
(* endswith, slicing, Path.name, Path.stem and sorted() are computed on    *)
(* characters as Python computes them.  Printing (--verbose, --show-diff)  *)
(* changes no state and is left out.                                       *)
(***************************************************************************)
EXTENDS Integers, Sequences, FiniteSets, TLC

(***************************************************************************)
(* Bounds of the model.                                                    *)
(***************************************************************************)
\* number of extra URI leaves placed in the primary document
MaxLeaves == 2

(***************************************************************************)
(* Strings                                                                 *)
(***************************************************************************)
S_gs       == <<"g", "s", ":", "/", "/">>
S_list     == <<".", "l", "i", "s", "t">>
S_gz       == <<".", "g", "z">>
S_tbi      == <<".", "t", "b", "i">>
S_gztbi    == S_gz \o S_tbi
S_cram     == <<".", "c", "r", "a", "m">>
S_crai     == <<".", "c", "r", "a", "i">>
S_bak      == <<".", "b", "a", "k">>
S_slash    == <<"/">>
S_json     == <<".", "j", "s", "o", "n">>
\* "ref_panel_1kg.json"
S_refpanel ==
    <<"r", "e", "f", "_", "p", "a", "n", "e", "l", "_", "1", "k", "g">> \o S_json
\* "ref_panel_1kg.samples.list"
S_samples ==
    <<"r", "e", "f", "_", "p", "a", "n", "e", "l", "_", "1", "k", "g",
      ".", "s", "a", "m", "p", "l", "e", "s">> \o S_list
\* "GATKSVPipelineSingleSample.ref_samples_list"
K_excl ==
    <<"G", "A", "T", "K", "S", "V", "P", "i", "p", "e", "l", "i", "n", "e",
      "S", "i", "n", "g", "l", "e", "S", "a", "m", "p", "l", "e", ".",
      "r", "e", "f", "_", "s", "a", "m", "p", "l", "e", "s", "_", "l", "i", "s", "t">>
K_sample_ids == <<"s", "a", "m", "p", "l", "e", "_", "i", "d", "s">>
K_samples    == <<"s", "a", "m", "p", "l", "e", "s">>

\* str.startswith / str.endswith / s[n:]
StartsWith(s, p) == Len(s) >= Len(p) /\ SubSeq(s, 1, Len(p)) = p
EndsWith(s, p)   == Len(s) >= Len(p) /\ SubSeq(s, Len(s) - Len(p) + 1, Len(s)) = p
Drop(s, n)       == SubSeq(s, n + 1, Len(s))

\* code point of the characters the model uses (Python compares str by code point)
Ord(c) ==
    CASE c = "\n" -> 10 [] c = " " -> 32 [] c = "#" -> 35 [] c = "." -> 46
      [] c = "/" -> 47 [] c = "1" -> 49 [] c = "2" -> 50 [] c = ":" -> 58
      [] c = "R" -> 82 [] c = "S" -> 83
      [] c = "a" -> 97 [] c = "b" -> 98 [] c = "c" -> 99 [] c = "d" -> 100
      [] c = "e" -> 101 [] c = "g" -> 103 [] c = "i" -> 105 [] c = "j" -> 106
      [] c = "k" -> 107 [] c = "l" -> 108 [] c = "m" -> 109 [] c = "n" -> 110
      [] c = "o" -> 111 [] c = "p" -> 112 [] c = "r" -> 114 [] c = "s" -> 115
      [] c = "t" -> 116 [] c = "v" -> 118 [] c = "x" -> 120 [] c = "y" -> 121
      [] c = "z" -> 122

\* a < b for Python str
RECURSIVE StrLess(_, _)
StrLess(a, b) ==
    IF b = <<>> THEN FALSE
    ELSE IF a = <<>> THEN TRUE
    ELSE IF Head(a) = Head(b) THEN StrLess(Tail(a), Tail(b))
    ELSE Ord(Head(a)) < Ord(Head(b))

\* sorted(set of str)
RECURSIVE SortedSeq(_)
SortedSeq(S) ==
    IF S = {} THEN <<>>
    ELSE LET lo == CHOOSE x \in S : \A y \in S \ {x} : StrLess(x, y)
         IN  <<lo>> \o SortedSeq(S \ {lo})

SeqRange(s) == {s[k] : k \in 1..Len(s)}

(***************************************************************************)
(* pathlib: Path(p).name, Path(p).stem, a / b, parents.  Paths of the      *)
(* model have no empty, "." or ".." component.                             *)
(***************************************************************************)
\* index of the last "/" of p, 0 when there is none
LastSlash(p) ==
    LET I == {k \in 1..Len(p) : p[k] = "/"}
    IN  IF I = {} THEN 0 ELSE CHOOSE k \in I : \A j \in I : j <= k

PathName(p) == Drop(p, LastSlash(p))

PathParent(p) ==
    LET k == LastSlash(p)
    IN  IF k = 0 THEN <<>> ELSE IF k = 1 THEN S_slash ELSE SubSeq(p, 1, k - 1)

\* Path(name).stem: the name without its last suffix
PathStem(name) ==
    LET I == {k \in 2..(Len(name) - 1) : name[k] = "."}
    IN  IF I = {} THEN name
        ELSE SubSeq(name, 1, (CHOOSE k \in I : \A j \in I : j <= k) - 1)

\* a / b
PathJoin(a, b) ==
    IF b = <<>> THEN a
    ELSE IF Head(b) = "/" THEN b
    ELSE IF a = S_slash THEN a \o b
    ELSE a \o S_slash \o b

\* p and every ancestor directory of p
RECURSIVE Ancestors(_)
Ancestors(p) ==
    IF p = <<>> \/ p = S_slash THEN {}
    ELSE {p} \cup Ancestors(PathParent(p))

(***************************************************************************)
(* JSON values: a closed variant, [t, v].  A dict is the sequence of its   *)
(* <<key, value>> pairs in insertion order.                                *)
(***************************************************************************)
JStr(s)   == [t |-> "str", v |-> s]
JNum(n)   == [t |-> "num", v |-> n]
JBool(b)  == [t |-> "bool", v |-> b]
JNull     == [t |-> "null", v |-> 0]
JList(xs) == [t |-> "list", v |-> xs]
JDict(kv) == [t |-> "dict", v |-> kv]

\* dict.get(key): the value of the last pair with that key, JNull when absent
DictGet(d, key) ==
    LET I == {k \in 1..Len(d.v) : d.v[k][1] = key}
    IN  IF d.t # "dict" \/ I = {} THEN JNull
        ELSE d.v[CHOOSE k \in I : \A j \in I : j <= k][2]

RECURSIVE find_gs_uris(_)
find_gs_uris(x) ==
    IF x.t = "dict" THEN UNION {find_gs_uris(x.v[k][2]) : k \in 1..Len(x.v)}
    ELSE IF x.t = "list" THEN UNION {find_gs_uris(x.v[k]) : k \in 1..Len(x.v)}
    ELSE IF x.t = "str" /\ StartsWith(x.v, S_gs) THEN {x.v}
    ELSE {}

\* make_dest_path_for_uri as it would be if the flat layout took the first
\* component of the object path (the bucket) instead of the last
make_dest_path_by_bucket(gs_uri, dest_root, mirror) ==
    LET no_scheme == Drop(gs_uri, 5)
        I == {n \in 1..Len(no_scheme) : no_scheme[n] = "/"}
        first == IF I = {} THEN no_scheme
                 ELSE SubSeq(no_scheme, 1, (CHOOSE a \in I : \A b \in I : a <= b) - 1)
    IN  IF mirror THEN PathJoin(dest_root, no_scheme)
        ELSE PathJoin(dest_root, first)

\* make_dest_path_for_uri as it would be if the mirrored layout left out the
\* bucket
make_dest_path_without_bucket(gs_uri, dest_root, mirror) ==
    LET no_scheme == Drop(gs_uri, 5)
        I == {n \in 1..Len(no_scheme) : no_scheme[n] = "/"}
        rest == IF I = {} THEN no_scheme
                ELSE Drop(no_scheme, CHOOSE a \in I : \A b \in I : a <= b)
    IN  IF mirror THEN PathJoin(dest_root, rest)
        ELSE PathJoin(dest_root, PathName(no_scheme))

make_dest_path_for_uri(gs_uri, dest_root, mirror) ==
    LET no_scheme == Drop(gs_uri, 5)
    IN  IF mirror THEN PathJoin(dest_root, no_scheme)
        ELSE PathJoin(dest_root, PathName(no_scheme))

is_list_uri(uri) == EndsWith(uri, S_list)

maybe_tbi_for_gz(gs_uri) == gs_uri \o S_tbi

\* replace_uris_in_obj as it would be if mapping keys were substituted too
RECURSIVE replace_uris_and_keys(_, _)
replace_uris_and_keys(x, mapping) ==
    IF x.t = "dict"
        THEN JDict([k \in 1..Len(x.v) |->
                       <<IF x.v[k][1] \in DOMAIN mapping THEN mapping[x.v[k][1]]
                         ELSE x.v[k][1],
                         replace_uris_and_keys(x.v[k][2], mapping)>>])
    ELSE IF x.t = "list"
        THEN JList([k \in 1..Len(x.v) |-> replace_uris_and_keys(x.v[k], mapping)])
    ELSE IF x.t = "str" /\ x.v \in DOMAIN mapping THEN JStr(mapping[x.v])
    ELSE x

RECURSIVE replace_uris_in_obj(_, _)
replace_uris_in_obj(x, mapping) ==
    IF x.t = "dict"
        THEN JDict([k \in 1..Len(x.v) |->
                       <<x.v[k][1], replace_uris_in_obj(x.v[k][2], mapping)>>])
    ELSE IF x.t = "list"
        THEN JList([k \in 1..Len(x.v) |-> replace_uris_in_obj(x.v[k], mapping)])
    ELSE IF x.t = "str" /\ x.v \in DOMAIN mapping THEN JStr(mapping[x.v])
    ELSE x

(***************************************************************************)
(* Manifests (.list files)                                                 *)
(***************************************************************************)
\* str.splitlines() for text whose only line terminator is "\n"
RECURSIVE SplitLines(_)
SplitLines(text) ==
    IF text = <<>> THEN <<>>
    ELSE LET I == {k \in 1..Len(text) : text[k] = "\n"}
         IN  IF I = {} THEN <<text>>
             ELSE LET k == CHOOSE a \in I : \A b \in I : a <= b
                  IN  <<SubSeq(text, 1, k - 1)>> \o SplitLines(Drop(text, k))

\* str.strip() for text whose only whitespace is " " (and "\n")
RECURSIVE Strip(_)
Strip(s) ==
    IF s = <<>> THEN s
    ELSE IF Head(s) \in {" ", "\n"} THEN Strip(Tail(s))
    ELSE IF s[Len(s)] \in {" ", "\n"} THEN Strip(SubSeq(s, 1, Len(s) - 1))
    ELSE s

\* NormalizeRaw as it would be if the comment test looked at the raw line
RECURSIVE NormalizeRaw_raw_comment_test(_)
NormalizeRaw_raw_comment_test(raws) ==
    IF raws = <<>> THEN <<>>
    ELSE LET s == Strip(Head(raws))
         IN  IF s = <<>> \/ Head(Head(raws)) = "#"
             THEN NormalizeRaw_raw_comment_test(Tail(raws))
             ELSE <<s>> \o NormalizeRaw_raw_comment_test(Tail(raws))

\* the loop of normalize_list_lines over the raw lines
RECURSIVE NormalizeRaw(_)
NormalizeRaw(raws) ==
    IF raws = <<>> THEN <<>>
    ELSE LET s == Strip(Head(raws))
         IN  IF s = <<>> \/ Head(s) = "#" THEN NormalizeRaw(Tail(raws))
             ELSE <<s>> \o NormalizeRaw(Tail(raws))

normalize_list_lines(text) == NormalizeRaw(SplitLines(text))

\* the local path of the rewritten manifest
ListTargetPath(gs_list_uri, dest_root) ==
    PathJoin(dest_root, PathName(Drop(gs_list_uri, 5)))

\* plan_list_downloads as it would be if the items were put beside the
\* manifest, not in the directory named after it
plan_list_downloads_beside_list(gs_list_uri, dest_root, text) ==
    LET items == normalize_list_lines(text)
    IN  [k \in 1..Len(items) |->
            IF StartsWith(items[k], S_gs)
            THEN [src |-> items[k], none |-> FALSE,
                  dst |-> PathJoin(dest_root, PathName(Drop(items[k], 5)))]
            ELSE [src |-> items[k], none |-> TRUE, dst |-> <<>>]]

\* the item plans of a manifest whose content is `text`: dst is None for an
\* entry that is no gs:// URI
plan_list_downloads(gs_list_uri, dest_root, text) ==
    LET list_basename == PathName(Drop(gs_list_uri, 5))
        subdir        == PathJoin(dest_root, PathStem(list_basename))
        items         == normalize_list_lines(text)
    IN  [k \in 1..Len(items) |->
            IF StartsWith(items[k], S_gs)
            THEN [src |-> items[k], none |-> FALSE,
                  dst |-> PathJoin(subdir, PathName(Drop(items[k], 5)))]
            ELSE [src |-> items[k], none |-> TRUE, dst |-> <<>>]]

\* "\n".join(lines) + "\n"
RECURSIVE JoinLines(_)
JoinLines(lines) ==
    IF lines = <<>> THEN <<"\n">>
    ELSE IF Len(lines) = 1 THEN Head(lines) \o <<"\n">>
    ELSE Head(lines) \o <<"\n">> \o JoinLines(Tail(lines))

\* str(dst) of a plan entry; str(None) is "None"
StrOfDst(plan) == IF plan.none THEN <<"N", "o", "n", "e">> ELSE plan.dst

\* the content write_local_list writes
LocalListContent(item_plans) ==
    JoinLines([k \in 1..Len(item_plans) |->
                  IF StartsWith(item_plans[k].src, S_gs)
                  THEN StrOfDst(item_plans[k])
                  ELSE item_plans[k].src])

\* IsHeavySkipped as it would be if the index suffix .crai were forgotten
IsHeavySkipped_cram_only(src, download_cram) ==
    (~download_cram) /\ EndsWith(src, S_cram)

\* is the entry skipped by the CRAM/CRAI policy
IsHeavySkipped(src, download_cram) ==
    (~download_cram) /\ (EndsWith(src, S_cram) \/ EndsWith(src, S_crai))

\* does a copied source get a companion .tbi check
WantsCompanion(src) == EndsWith(src, S_gz) /\ ~EndsWith(src, S_gztbi)

(***************************************************************************)
(* The world of a run: file system, directories, and the trace of the      *)
(* external processes started and files written.                           *)
(***************************************************************************)
VARIABLES
    args,              \* the parsed command line
    fs,                \* path -> file content, for every existing file
    dirs,              \* the existing directories
    log,               \* the effects of the current run so far, in order
    pc,                \* position in main()
    exit_code,         \* the exit status, -1 while running
    singlesample,      \* the loaded primary document
    exclude_list_uri,  \* singlesample.get(K_excl)
    gs_uris,           \* sorted(find_gs_uris(singlesample))
    uri_to_local,
    list_mappings,
    i,                 \* index in gs_uris of the .list expansion loop
    item_plans,        \* the plans of the manifest being expanded
    j,                 \* index in item_plans
    k,                 \* index of the top-level fetch loop / the update loop
    fs0,               \* fs and dirs when the current run started
    dirs0,
    attempt,           \* "first", or "second" when the script is run again
    call,              \* a call of one function on its own: the function and its arguments
    ret,               \* and what it returned
    frame              \* the locals of a function called on its own that runs in steps

vars == <<args, fs, dirs, log, pc, exit_code, singlesample, exclude_list_uri,
          gs_uris, uri_to_local, list_mappings, i, item_plans, j, k, fs0, dirs0,
          attempt, call, ret, frame>>

harness == <<call, ret, frame>>

\* no function is running in steps
NoFrame == [at |-> "none"]

locals == <<singlesample, exclude_list_uri, gs_uris, uri_to_local, list_mappings,
            i, item_plans, j, k>>

FJson(node) == [t |-> "json", v |-> node]
FText(text) == [t |-> "text", v |-> text]
FObj(src)   == [t |-> "obj", v |-> src]

Put(f, key, val) == [x \in DOMAIN f \cup {key} |-> IF x = key THEN val ELSE f[x]]

\* dict.update
Merge(f, g) == [x \in DOMAIN f \cup DOMAIN g |-> IF x \in DOMAIN g THEN g[x] ELSE f[x]]

Event(cmd, src, dst, ok, why, w) ==
    [cmd |-> cmd, src |-> src, dst |-> dst, ok |-> ok, why |-> why, out |-> "",
     existed |-> dst \in DOMAIN w.fs]

World == [fs |-> fs, dirs |-> dirs, log |-> log, raised |-> FALSE]

\* Path.mkdir(parents=True, exist_ok=True)
MkdirParents(ds, p) == ds \cup Ancestors(p)

\* run_gsutil_cp as it would be with subprocess.call: a failed copy raises nothing
run_gsutil_cp_unchecked(w, src, dst, why, ok) ==
    [fs     |-> IF ok THEN Put(w.fs, dst, FObj(src)) ELSE w.fs,
     dirs   |-> MkdirParents(w.dirs, PathParent(dst)),
     log    |-> Append(w.log, Event("cp", src, dst, ok, why, w)),
     raised |-> FALSE]

\* run_gsutil_cp: makes the destination's directory, then starts gsutil cp;
\* a failed copy raises CalledProcessError
run_gsutil_cp(w, src, dst, why, ok) ==
    [fs     |-> IF ok THEN Put(w.fs, dst, FObj(src)) ELSE w.fs,
     dirs   |-> MkdirParents(w.dirs, PathParent(dst)),
     log    |-> Append(w.log, Event("cp", src, dst, ok, why, w)),
     raised |-> ~ok]

\* gsutil_exists: gsutil stat; "exists", "absent" or "error" (both False)
gsutil_exists(w, gs_uri, out) ==
    [w EXCEPT !.log = Append(w.log, [Event("stat", gs_uri, <<>>, out = "exists", "tbi", w)
                                        EXCEPT !.out = out])]

\* FetchWithCompanion as it would be if only a clean "absent" answer of the
\* existence check kept the companion from being copied
FetchWithCompanion_unless_absent(w, src, dst, why, cpOk, statOut, tbiOk) ==
    LET w1 == run_gsutil_cp(w, src, dst, why, cpOk)
    IN  IF w1.raised \/ ~WantsCompanion(src) THEN w1
        ELSE LET w2 == gsutil_exists(w1, maybe_tbi_for_gz(src), statOut)
             IN  IF statOut # "absent"
                 THEN run_gsutil_cp(w2, maybe_tbi_for_gz(src), dst \o S_tbi, "tbi", tbiOk)
                 ELSE w2

\* one planned transfer of a real run: the copy and, for a .gz source, the
\* companion .tbi check and copy
FetchWithCompanion(w, src, dst, why, cpOk, statOut, tbiOk) ==
    LET w1 == run_gsutil_cp(w, src, dst, why, cpOk)
    IN  IF w1.raised \/ ~WantsCompanion(src) THEN w1
        ELSE LET w2 == gsutil_exists(w1, maybe_tbi_for_gz(src), statOut)
             IN  IF statOut = "exists"
                 THEN run_gsutil_cp(w2, maybe_tbi_for_gz(src), dst \o S_tbi, "tbi", tbiOk)
                 ELSE w2

\* gsutil_cat as an event
CatEvent(w, gs_uri, ok) == Append(w.log, Event("cat", gs_uri, <<>>, ok, "list", w))

\* write_local_list
write_local_list(w, uri, target_list_path, plans, dry_run) ==
    IF dry_run THEN w
    ELSE [fs     |-> Put(w.fs, target_list_path, FText(LocalListContent(plans))),
          dirs   |-> MkdirParents(w.dirs, PathParent(target_list_path)),
          log    |-> Append(w.log, Event("write_list", uri, target_list_path, TRUE, "list", w)),
          raised |-> FALSE]

\* ShouldExpand as it would be without the exclusion test
ShouldExpand_every_list(uri, excl) == is_list_uri(uri)

\* is the URI expanded as a manifest
ShouldExpand(uri, excl) == is_list_uri(uri) /\ ~(excl.t = "str" /\ excl.v = uri)

\* is a plan entry (or a top-level URI) one the fetch loops pass over
ItemPassedOver(plan, a) ==
    \/ ~(StartsWith(plan.src, S_gs) /\ ~plan.none)
    \/ IsHeavySkipped(plan.src, a.download_cram)
    \/ a.dry_run \/ a.skip_download

\* TopPassedOver as it would be if the top-level loop did not skip manifests
TopPassedOver_heavy_only(uri, a) == IsHeavySkipped(uri, a.download_cram)

TopPassedOver(uri, a) == is_list_uri(uri) \/ IsHeavySkipped(uri, a.download_cram)

(***************************************************************************)
(* The inputs the model draws from                                         *)
(***************************************************************************)
DestRoot         == <<"/", "R">>
SinglesamplePath == <<"/", "i", "n", "/", "s", "s">> \o S_json
ResourcesPath    == <<"/", "v", "/", "r", "e", "s">> \o S_json
RefPanelPath     == <<"/", "v", "/">> \o S_refpanel

U_x1   == S_gs \o <<"b", "1", "/", "x">> \o S_gz
U_x2   == S_gs \o <<"b", "2", "/", "x">> \o S_gz
U_cram == S_gs \o <<"b", "1", "/", "s">> \o S_cram
L_a1   == S_gs \o <<"b", "1", "/", "a">> \o S_list
L_a2   == S_gs \o <<"b", "2", "/", "a">> \o S_list
LeafUniverse == {U_x1, U_x2, U_cram, L_a1, L_a2}

\* "# c\n\n gs://b1/y.gz \nS1\n"
Text1 ==
    <<"#", " ", "c", "\n", "\n", " ">> \o S_gs \o <<"b", "1", "/", "y">> \o S_gz
        \o <<" ", "\n", "S", "1", "\n">>
\* "gs://b1/s.crai\ngs://b2/y.gz\ngs://b1/a.list": the last entry is itself
\* a manifest, one the primary document can name too
Text2 ==
    S_gs \o <<"b", "1", "/", "s">> \o S_crai \o <<"\n">>
        \o S_gs \o <<"b", "2", "/", "y">> \o S_gz \o <<"\n">> \o L_a1
\* the content of the remote manifests
RemoteText(uri) == IF uri = L_a1 THEN Text1 ELSE Text2

\* a primary document: the exclusion key (when excl is a string), one leaf in
\* a list, the others nested deeper, and leaves that are no gs:// URI
PrimaryDoc(excl, leaves) ==
    LET ls == SortedSeq(leaves)
        js == [n \in 1..Len(ls) |-> JStr(ls[n])]
    IN  JDict((IF excl = <<>> THEN <<>> ELSE << <<K_excl, JStr(excl)>> >>)
              \o << <<<<"i", "n">>,
                      JList((IF js = <<>> THEN <<>> ELSE <<js[1]>>) \o
                            <<JDict(<< <<<<"k">>, JList(Drop(js, 1))>> >>),
                              JNum(3), JBool(TRUE), JNull,
                              JStr(<<"/", "d", "/", "x">> \o S_gz)>>)>> >>)

ResourcesDoc ==
    JDict(<< <<<<"a">>, JStr(U_x1)>>,
             <<<<"b">>, JList(<<JStr(L_a1), JNum(5), JStr(<<"k", "e", "e", "p">>)>>)>> >>)

RefPanelDoc ==
    JDict(<< <<K_sample_ids, JList(<<JStr(<<"S", "1">>)>>)>>,
             <<<<"l">>, JStr(L_a2)>>,
             <<<<"c">>, JStr(U_cram)>> >>)

InitialFiles ==
    Put(Put(Put(<<>>, SinglesamplePath, FJson(JNull)), ResourcesPath, FJson(ResourcesDoc)),
        RefPanelPath, FJson(RefPanelDoc))

Restrict(f, S) == [x \in S |-> f[x]]

Init ==
    \E mirror, skip_download, download_cram, dry_run, backup, destExists \in BOOLEAN :
    \E excl \in {<<>>, L_a1} :
    \E leaves \in {L \in SUBSET LeafUniverse : Cardinality(L) <= MaxLeaves} :
    \E missing \in {<<>>, SinglesamplePath, RefPanelPath} :
        /\ args = [singlesample |-> SinglesamplePath, dest |-> DestRoot,
                   update_jsons |-> <<ResourcesPath, RefPanelPath>>,
                   mirror |-> mirror, skip_download |-> skip_download,
                   download_cram |-> download_cram, dry_run |-> dry_run,
                   backup |-> backup]
        /\ fs = LET all == Put(InitialFiles, SinglesamplePath,
                               FJson(PrimaryDoc(excl, leaves)))
                IN  Restrict(all, DOMAIN all \ {missing})
        /\ dirs = {<<"/", "i", "n">>, <<"/", "v">>}
                    \cup (IF destExists THEN {DestRoot} ELSE {})
        /\ log = <<>>
        /\ pc = "start"
        /\ exit_code = -1
        /\ singlesample = JNull
        /\ exclude_list_uri = JNull
        /\ gs_uris = <<>>
        /\ uri_to_local = <<>>
        /\ list_mappings = <<>>
        /\ i = 1 /\ j = 1 /\ k = 1
        /\ item_plans = <<>>
        /\ fs0 = fs
        /\ dirs0 = dirs
        /\ attempt = "first"
        /\ call = [f |-> "main"]
        /\ ret = [done |-> FALSE, v |-> JNull]
        /\ frame = NoFrame

(***************************************************************************)
(* main()                                                                  *)
(***************************************************************************)
\* ConfigMissing as it would be if only the primary document were checked
ConfigMissing_primary_only == args.singlesample \notin DOMAIN fs

\* is the primary document or a target document missing
ConfigMissing ==
    \/ args.singlesample \notin DOMAIN fs
    \/ \E n \in 1..Len(args.update_jsons) : args.update_jsons[n] \notin DOMAIN fs

\* lines 198-202: a missing input document ends the run with status 1
ConfigError ==
    /\ pc = "start"
    /\ ConfigMissing
    /\ pc' = "config_error"
    /\ exit_code' = 1
    /\ UNCHANGED <<args, fs, dirs, log, locals, fs0, dirs0, attempt, harness>>

\* lines 211-228: load the primary document, scan it, build the mapping
LoadAndScan ==
    /\ pc = "start"
    /\ ~ConfigMissing
    /\ LET doc  == fs[args.singlesample].v
           uris == SortedSeq(find_gs_uris(doc))
       IN  /\ singlesample' = doc
           /\ exclude_list_uri' = DictGet(doc, K_excl)
           /\ gs_uris' = uris
           /\ uri_to_local' = [u \in SeqRange(uris) |->
                                  make_dest_path_for_uri(u, args.dest, args.mirror)]
    /\ list_mappings' = <<>>
    /\ i' = 1
    /\ pc' = "lists"
    /\ UNCHANGED <<args, fs, dirs, log, exit_code, item_plans, j, k, fs0, dirs0, attempt, harness>>

\* line 230: a URI that is no manifest to expand
SkipNotExpanded ==
    /\ pc = "lists"
    /\ i <= Len(gs_uris)
    /\ ~ShouldExpand(gs_uris[i], exclude_list_uri)
    /\ i' = i + 1
    /\ UNCHANGED <<args, fs, dirs, log, pc, exit_code, singlesample,
                   exclude_list_uri, gs_uris, uri_to_local, list_mappings,
                   item_plans, j, k, fs0, dirs0, attempt, harness>>

\* ExpandFail as it would be without the try/except around plan_list_downloads
ExpandFail_uncaught ==
    /\ pc = "lists"
    /\ i <= Len(gs_uris)
    /\ is_list_uri(gs_uris[i]) /\ JStr(gs_uris[i]) # exclude_list_uri
    /\ log' = Append(log, [cmd |-> "cat", src |-> gs_uris[i], dst |-> <<>>, ok |-> FALSE,
                           why |-> "list", out |-> "", existed |-> FALSE])
    /\ pc' = "fetch_error"
    /\ exit_code' = 1
    /\ UNCHANGED <<args, fs, dirs, singlesample, exclude_list_uri, gs_uris, uri_to_local,
                   list_mappings, i, item_plans, j, k, fs0, dirs0, attempt, harness>>

\* lines 231-235: gsutil cat fails, the manifest is skipped with a warning
ExpandFail ==
    /\ pc = "lists"
    /\ i <= Len(gs_uris)
    /\ ShouldExpand(gs_uris[i], exclude_list_uri)
    /\ log' = CatEvent(World, gs_uris[i], FALSE)
    /\ i' = i + 1
    /\ UNCHANGED <<args, fs, dirs, pc, exit_code, singlesample,
                   exclude_list_uri, gs_uris, uri_to_local, list_mappings,
                   item_plans, j, k, fs0, dirs0, attempt, harness>>

\* lines 231-232: gsutil cat returns the manifest's text, the items are planned
ExpandOk ==
    /\ pc = "lists"
    /\ i <= Len(gs_uris)
    /\ ShouldExpand(gs_uris[i], exclude_list_uri)
    /\ item_plans' = plan_list_downloads(gs_uris[i], args.dest, RemoteText(gs_uris[i]))
    /\ log' = CatEvent(World, gs_uris[i], TRUE)
    /\ j' = 1
    /\ pc' = "items"
    /\ UNCHANGED <<args, fs, dirs, exit_code, singlesample, exclude_list_uri,
                   gs_uris, uri_to_local, list_mappings, i, k, fs0, dirs0, attempt, harness>>

\* lines 238-244, 256-262: an item that is not copied
ItemSkip ==
    /\ pc = "items"
    /\ j <= Len(item_plans)
    /\ ItemPassedOver(item_plans[j], args)
    /\ j' = j + 1
    /\ UNCHANGED <<args, fs, dirs, log, pc, exit_code, singlesample,
                   exclude_list_uri, gs_uris, uri_to_local, list_mappings, i,
                   item_plans, k, fs0, dirs0, attempt, harness>>

\* lines 245-255: an item is copied, with its companion
ItemFetch ==
    /\ pc = "items"
    /\ j <= Len(item_plans)
    /\ ~ItemPassedOver(item_plans[j], args)
    /\ \E cpOk, tbiOk \in BOOLEAN, statOut \in {"exists", "absent", "error"} :
        LET w == FetchWithCompanion(World, item_plans[j].src, item_plans[j].dst,
                                    "item", cpOk, statOut, tbiOk)
        IN  /\ fs' = w.fs /\ dirs' = w.dirs /\ log' = w.log
            /\ IF w.raised
               THEN pc' = "fetch_error" /\ exit_code' = 1 /\ j' = j
               ELSE pc' = pc /\ exit_code' = exit_code /\ j' = j + 1
    /\ UNCHANGED <<args, singlesample, exclude_list_uri, gs_uris, uri_to_local,
                   list_mappings, i, item_plans, k, fs0, dirs0, attempt, harness>>

\* lines 264-268: the local manifest is written and mapped
ItemsDone ==
    /\ pc = "items"
    /\ j > Len(item_plans)
    /\ LET target == ListTargetPath(gs_uris[i], args.dest)
           w == write_local_list(World, gs_uris[i], target, item_plans, args.dry_run)
       IN  /\ fs' = w.fs /\ dirs' = w.dirs /\ log' = w.log
           /\ list_mappings' = Put(list_mappings, gs_uris[i], target)
    /\ i' = i + 1
    /\ pc' = "lists"
    /\ UNCHANGED <<args, exit_code, singlesample, exclude_list_uri, gs_uris,
                   uri_to_local, item_plans, j, k, fs0, dirs0, attempt, harness>>

\* lines 270-274: the list mappings are merged; a dry or skip-download run
\* only prints the top-level plan
ListsDone ==
    /\ pc = "lists"
    /\ i > Len(gs_uris)
    /\ uri_to_local' = Merge(uri_to_local, list_mappings)
    /\ k' = 1
    /\ pc' = IF args.dry_run \/ args.skip_download THEN "update" ELSE "toplevel"
    /\ UNCHANGED <<args, fs, dirs, log, exit_code, singlesample, exclude_list_uri,
                   gs_uris, list_mappings, i, item_plans, j, fs0, dirs0, attempt, harness>>

\* lines 288-295: a top-level URI that is not copied
TopSkip ==
    /\ pc = "toplevel"
    /\ k <= Len(gs_uris)
    /\ TopPassedOver(gs_uris[k], args)
    /\ k' = k + 1
    /\ UNCHANGED <<args, fs, dirs, log, pc, exit_code, singlesample,
                   exclude_list_uri, gs_uris, uri_to_local, list_mappings, i,
                   item_plans, j, fs0, dirs0, attempt, harness>>

\* lines 296-305: a top-level URI is copied, with its companion
TopFetch ==
    /\ pc = "toplevel"
    /\ k <= Len(gs_uris)
    /\ ~TopPassedOver(gs_uris[k], args)
    /\ \E cpOk, tbiOk \in BOOLEAN, statOut \in {"exists", "absent", "error"} :
        LET w == FetchWithCompanion(World, gs_uris[k], uri_to_local[gs_uris[k]],
                                    "top", cpOk, statOut, tbiOk)
        IN  /\ fs' = w.fs /\ dirs' = w.dirs /\ log' = w.log
            /\ IF w.raised
               THEN pc' = "fetch_error" /\ exit_code' = 1 /\ k' = k
               ELSE pc' = pc /\ exit_code' = exit_code /\ k' = k + 1
    /\ UNCHANGED <<args, singlesample, exclude_list_uri, gs_uris, uri_to_local,
                   list_mappings, i, item_plans, j, fs0, dirs0, attempt, harness>>

TopDone ==
    /\ pc = "toplevel"
    /\ k > Len(gs_uris)
    /\ k' = 1
    /\ pc' = "update"
    /\ UNCHANGED <<args, fs, dirs, log, exit_code, singlesample, exclude_list_uri,
                   gs_uris, uri_to_local, list_mappings, i, item_plans, j, fs0, dirs0, attempt, harness>>

\* WriteTarget as it would be if the backup copy were made after the
\* document is rewritten
WriteTarget_backup_after(w, uj, updated_obj, backup) ==
    LET bak == uj \o S_bak
        w1  == [w EXCEPT !.fs = Put(w.fs, uj, FJson(updated_obj)),
                         !.log = Append(w.log, Event("write_json", uj, uj, TRUE, "update", w))]
    IN  IF backup
        THEN [w1 EXCEPT !.fs = Put(w1.fs, bak, w1.fs[uj]),
                        !.log = Append(w1.log, Event("backup", uj, bak, TRUE, "update", w1))]
        ELSE w1

\* lines 321-326: the backup copy (with --backup) and the rewritten document
WriteTarget(w, uj, updated_obj, backup) ==
    LET bak == uj \o S_bak
        w1  == IF backup
               THEN [w EXCEPT !.fs = Put(w.fs, bak, w.fs[uj]),
                              !.log = Append(w.log, Event("backup", uj, bak, TRUE, "update", w))]
               ELSE w
    IN  [w1 EXCEPT !.fs = Put(w1.fs, uj, FJson(updated_obj)),
                   !.log = Append(w1.log, Event("write_json", uj, uj, TRUE, "update", w1))]

\* lines 308-327: one target document is rewritten (not in a dry run)
UpdateStep ==
    /\ pc = "update"
    /\ k <= Len(args.update_jsons)
    /\ LET uj           == args.update_jsons[k]
           original_obj == fs[uj].v
           updated_obj  == replace_uris_in_obj(original_obj, uri_to_local)
           w == IF args.dry_run THEN World
                ELSE WriteTarget(World, uj, updated_obj, args.backup)
       IN  fs' = w.fs /\ log' = w.log
    /\ k' = k + 1
    /\ UNCHANGED <<args, dirs, pc, exit_code, singlesample, exclude_list_uri,
                   gs_uris, uri_to_local, list_mappings, i, item_plans, j, fs0, dirs0, attempt, harness>>

\* Python truth value of a JSON value
Truthy(x) ==
    IF x.t = "null" THEN FALSE
    ELSE IF x.t = "bool" THEN x.v
    ELSE IF x.t = "num" THEN x.v # 0
    ELSE Len(x.v) > 0

\* rp.get("sample_ids") or rp.get("samples") or []
SamplesOf(rp) ==
    IF Truthy(DictGet(rp, K_sample_ids)) THEN DictGet(rp, K_sample_ids)
    ELSE IF Truthy(DictGet(rp, K_samples)) THEN DictGet(rp, K_samples)
    ELSE JList(<<>>)

\* the text of the sample list: one line per sample
RECURSIVE SampleLines(_)
SampleLines(xs) ==
    IF xs = <<>> THEN <<>>
    ELSE Head(xs).v \o <<"\n">> \o SampleLines(Tail(xs))

\* lines 329-345: for each target named ref_panel_1kg.json the sample list is
\* written under args.dest; the first failure ends the loop with a warning
RECURSIVE write_sample_lists(_, _, _)
write_sample_lists(w, a, n) ==
    IF n > Len(a.update_jsons) THEN w
    ELSE IF ~EndsWith(a.update_jsons[n], S_refpanel) THEN write_sample_lists(w, a, n + 1)
    ELSE LET out_list == PathJoin(a.dest, S_samples)
             samples  == SamplesOf(w.fs[a.update_jsons[n]].v)
         IN  IF a.dest \notin w.dirs THEN w
             ELSE write_sample_lists(
                      [w EXCEPT !.fs = Put(w.fs, out_list, FText(SampleLines(samples.v))),
                                !.log = Append(w.log, Event("write_samples",
                                                   a.update_jsons[n], out_list, TRUE,
                                                   "samples", w))],
                      a, n + 1)

\* lines 329-361: the sample lists and the summary; main returns
Finish ==
    /\ pc = "update"
    /\ k > Len(args.update_jsons)
    /\ LET w == write_sample_lists(World, args, 1)
       IN  fs' = w.fs /\ log' = w.log
    /\ pc' = "done"
    /\ exit_code' = 0
    /\ UNCHANGED <<args, dirs, singlesample, exclude_list_uri, gs_uris,
                   uri_to_local, list_mappings, i, item_plans, j, k, fs0, dirs0, attempt, harness>>

\* the operator runs the script a second time with the same command line, on
\* the file system left by a first run in which no gsutil cp or cat failed
Rerun ==
    /\ pc = "done"
    /\ attempt = "first"
    /\ attempt' = "second"
    /\ \A n \in 1..Len(log) : log[n].cmd \in {"cp", "cat"} => log[n].ok
    /\ pc' = "start"
    /\ exit_code' = -1
    /\ singlesample' = JNull
    /\ exclude_list_uri' = JNull
    /\ gs_uris' = <<>>
    /\ uri_to_local' = <<>>
    /\ list_mappings' = <<>>
    /\ i' = 1 /\ j' = 1 /\ k' = 1
    /\ item_plans' = <<>>
    /\ fs0' = fs
    /\ dirs0' = dirs
    /\ log' = <<>>
    /\ UNCHANGED <<args, fs, dirs, harness>>

Next ==
    \/ ConfigError
    \/ LoadAndScan
    \/ SkipNotExpanded
    \/ ExpandFail
    \/ ExpandOk
    \/ ItemSkip
    \/ ItemFetch
    \/ ItemsDone
    \/ ListsDone
    \/ TopSkip
    \/ TopFetch
    \/ TopDone
    \/ UpdateStep
    \/ Finish
    \/ Rerun

Spec == Init /\ [][Next]_vars

(***************************************************************************)
(* The JSON rewriter on its own: replace_uris_in_obj applied to every       *)
(* document and mapping of a bounded set.                                  *)
(***************************************************************************)
\* longest list and largest dict of the documents
MaxWidth == 2

R_A == S_gs \o <<"b", "/", "a">>
R_B == S_gs \o <<"b", "/", "b">>
R_P == <<"/", "R", "/", "a">>

SeqsUpTo(S, n) == UNION {[1..m -> S] : m \in 0..n}

RewriteLeaves == {JStr(R_A), JStr(R_B), JNum(7), JBool(FALSE), JNull}
RewriteKeys   == {R_A, <<"k">>}

\* lists and dicts of leaves; a dict has distinct keys
RewriteLevel1 ==
    {JList(xs) : xs \in SeqsUpTo(RewriteLeaves, MaxWidth)}
    \cup {JDict(kv) : kv \in {q \in SeqsUpTo(RewriteKeys \X RewriteLeaves, MaxWidth) :
                                 \A a, b \in 1..Len(q) : a # b => q[a][1] # q[b][1]}}

\* and those nested once more, in a list and under a key
RewriteDocs ==
    RewriteLeaves \cup RewriteLevel1
    \cup {JList(<<JStr(R_B), x>>) : x \in RewriteLevel1}
    \cup {JDict(<< <<R_A, x>> >>) : x \in RewriteLevel1}

RewriteMaps == {<<>>, R_A :> R_P, R_A :> R_B, (R_A :> R_B) @@ (R_B :> R_P)}

\* main() is not running
Idle ==
    /\ args = [singlesample |-> SinglesamplePath, dest |-> DestRoot,
               update_jsons |-> <<>>, mirror |-> FALSE, skip_download |-> FALSE,
               download_cram |-> FALSE, dry_run |-> FALSE, backup |-> FALSE]
    /\ fs = <<>> /\ dirs = {} /\ log = <<>>
    /\ pc = "idle"
    /\ exit_code = -1
    /\ singlesample = JNull
    /\ exclude_list_uri = JNull
    /\ gs_uris = <<>>
    /\ uri_to_local = <<>>
    /\ list_mappings = <<>>
    /\ i = 1 /\ j = 1 /\ k = 1
    /\ item_plans = <<>>
    /\ fs0 = fs
    /\ dirs0 = dirs
    /\ attempt = "first"

InitRewrite ==
    /\ Idle
    /\ \E doc \in RewriteDocs, m \in RewriteMaps :
           call = [f |-> "replace_uris_in_obj", obj |-> doc, mapping |-> m]
    /\ ret = [done |-> FALSE, v |-> JNull]
    /\ frame = NoFrame

ApplyRewrite ==
    /\ call.f = "replace_uris_in_obj"
    /\ ~ret.done
    /\ ret' = [done |-> TRUE, v |-> replace_uris_in_obj(call.obj, call.mapping)]
    /\ UNCHANGED <<args, fs, dirs, log, pc, exit_code, locals, fs0, dirs0, attempt, call, frame>>

SpecRewrite == InitRewrite /\ [][ApplyRewrite]_vars

(***************************************************************************)
(* One manifest on its own: normalize_list_lines, plan_list_downloads and  *)
(* write_local_list applied to every manifest text of a bounded set.       *)
(***************************************************************************)
\* most raw lines of a manifest text
MaxLines == 4

RL_comment  == <<"#", " ", "c">>
RL_blank    == <<>>
RL_padded   == <<" ">> \o S_gs \o <<"b", "/", "x">> \o S_gz \o <<" ">>
RL_opaque   == <<"S", "1">>
RL_indented == <<" ", "#", "x">>
RL_hash     == <<"a", " ", "#", "b">>

RawLines == {RL_comment, RL_blank, RL_padded, RL_opaque, RL_indented, RL_hash}

\* "\n".join(raws)
RECURSIVE JoinRaw(_)
JoinRaw(raws) ==
    IF raws = <<>> THEN <<>>
    ELSE IF Len(raws) = 1 THEN Head(raws)
    ELSE Head(raws) \o <<"\n">> \o JoinRaw(Tail(raws))

\* manifests gs://<bucket>/<stem>.list, one of them with a dot in its stem
ManifestStems == {<<"a">>, <<"c", ".", "d">>}
ManifestUri(stem) == S_gs \o <<"b", "1", "/", "m", "/">> \o stem \o S_list

EmptyWorld == [fs |-> <<>>, dirs |-> {}, log |-> <<>>, raised |-> FALSE]

InitManifest ==
    /\ Idle
    /\ \E raws \in SeqsUpTo(RawLines, MaxLines), trailing, dry_run \in BOOLEAN,
          stem \in ManifestStems :
           call = [f |-> "expand_manifest", raws |-> raws, stem |-> stem,
                   gs_list_uri |-> ManifestUri(stem), dest_root |-> DestRoot,
                   text |-> JoinRaw(raws) \o (IF trailing THEN <<"\n">> ELSE <<>>),
                   dry_run |-> dry_run]
    /\ ret = [done |-> FALSE, v |-> JNull]
    /\ frame = NoFrame

\* lines 232 and 264 of main(): the manifest is planned and its local copy written
ApplyManifest ==
    /\ call.f = "expand_manifest"
    /\ ~ret.done
    /\ LET plans  == plan_list_downloads(call.gs_list_uri, call.dest_root, call.text)
           target == ListTargetPath(call.gs_list_uri, call.dest_root)
       IN  ret' = [done |-> TRUE,
                   v |-> [lines  |-> normalize_list_lines(call.text),
                          plans  |-> plans,
                          target |-> target,
                          w      |-> write_local_list(EmptyWorld, call.gs_list_uri, target,
                                                      plans, call.dry_run)]]
    /\ UNCHANGED <<args, fs, dirs, log, pc, exit_code, locals, fs0, dirs0, attempt, call, frame>>

SpecManifest == InitManifest /\ [][ApplyManifest]_vars

(***************************************************************************)
(* The path mapper on its own: make_dest_path_for_uri applied to every URI *)
(* of a bounded set, for two destination roots and both layouts.           *)
(***************************************************************************)
\* most components of an object path, the bucket included
MaxDepth == 4

PC_bucket == <<"b", "u", "c", "k", "e", "t">>
PC_a      == <<"a">>
PC_b      == <<"b">>
PC_ctxt   == <<"c", ".", "t", "x", "t">>
PathComponents == {PC_bucket, PC_a, PC_b, PC_ctxt}

\* a relative destination root, "root"
RelRoot == <<"r", "o", "o", "t">>

\* "/".join(comps)
RECURSIVE JoinSlash(_)
JoinSlash(comps) ==
    IF Len(comps) = 1 THEN Head(comps)
    ELSE Head(comps) \o S_slash \o JoinSlash(Tail(comps))

InitPathMap ==
    /\ Idle
    /\ \E comps \in SeqsUpTo(PathComponents, MaxDepth) \ {<<>>},
          dest_root \in {DestRoot, RelRoot}, mirror \in BOOLEAN :
           call = [f |-> "make_dest_path_for_uri", comps |-> comps,
                   gs_uri |-> S_gs \o JoinSlash(comps),
                   dest_root |-> dest_root, mirror |-> mirror]
    /\ ret = [done |-> FALSE, v |-> JNull]
    /\ frame = NoFrame

ApplyPathMap ==
    /\ call.f = "make_dest_path_for_uri"
    /\ ~ret.done
    /\ ret' = [done |-> TRUE,
               v |-> make_dest_path_for_uri(call.gs_uri, call.dest_root, call.mirror)]
    /\ UNCHANGED <<args, fs, dirs, log, pc, exit_code, locals, fs0, dirs0, attempt, call, frame>>

SpecPathMap == InitPathMap /\ [][ApplyPathMap]_vars

(***************************************************************************)
(* pull_docker.py: pull_sifs_for_keys on its own, one loop iteration a     *)
(* step, for every assignment of a bounded set of image references to the  *)
(* unbuilt keys.                                                           *)
(***************************************************************************)
S_docker == <<"d", "o", "c", "k", "e", "r", ":", "/", "/">>
S_sif    == <<".", "s", "i", "f">>

Uppers == <<"A", "B", "C", "D", "E", "F", "G", "H", "I", "J", "K", "L", "M",
            "N", "O", "P", "Q", "R", "S", "T", "U", "V", "W", "X", "Y", "Z">>
Lowers == <<"a", "b", "c", "d", "e", "f", "g", "h", "i", "j", "k", "l", "m",
            "n", "o", "p", "q", "r", "s", "t", "u", "v", "w", "x", "y", "z">>

\* str.lower() for ASCII text
LowerChar(c) ==
    IF \E n \in 1..26 : Uppers[n] = c
    THEN Lowers[CHOOSE n \in 1..26 : Uppers[n] = c]
    ELSE c
Lower(s) == [n \in 1..Len(s) |-> LowerChar(s[n])]

\* url[len("docker://"):] if url.startswith("docker://") else url
StripDockerScheme(url) == IF StartsWith(url, S_docker) THEN Drop(url, 9) ELSE url

\* repo/name:tag -> name_tag
docker_url_to_basename(url) ==
    LET u    == StripDockerScheme(url)
        last == Drop(u, LastSlash(u))
    IN  [n \in 1..Len(last) |-> IF last[n] = ":" THEN "_" ELSE last[n]]

\* DedupeKey as it would be if references were compared as written
DedupeKey_as_written(url_no_scheme) == url_no_scheme

\* the key pulls are deduplicated by
DedupeKey(url_no_scheme) == Lower(url_no_scheme)

\* one iteration of the loop of pull_sifs_for_keys over the frame fr (its
\* locals, the .sif files on disk and the pulls started); pullOk is the
\* outcome of apptainer pull, should it be started
pull_iteration(fr, key, dockers_json, out_dir, dry_run, pullOk) ==
    LET url == dockers_json[key]
        nxt == [fr EXCEPT !.n = fr.n + 1]
    IN  IF url.t # "str" THEN nxt
        ELSE
        LET url_no_scheme == StripDockerScheme(url.v)
            pull_url      == S_docker \o Lower(url_no_scheme)
            base          == docker_url_to_basename(url.v)
            sif_path      == PathJoin(out_dir, base \o S_sif)
            dedupe_key    == DedupeKey(url_no_scheme)
        IN  IF dry_run THEN [nxt EXCEPT !.updates = Put(fr.updates, key, base)]
            ELSE IF dedupe_key \in DOMAIN fr.url_to_basename
                THEN [nxt EXCEPT !.updates = Put(fr.updates, key, fr.url_to_basename[dedupe_key])]
            ELSE IF sif_path \in fr.files
                THEN [nxt EXCEPT !.url_to_basename = Put(fr.url_to_basename, dedupe_key, base),
                                 !.updates = Put(fr.updates, key, base)]
            ELSE LET started == Append(fr.pulls,
                                       [key |-> key, url |-> url.v, pull_url |-> pull_url,
                                        sif_path |-> sif_path, ok |-> pullOk])
                 IN  IF pullOk
                     THEN [nxt EXCEPT !.pulls = started,
                                      !.files = fr.files \cup {sif_path},
                                      !.url_to_basename = Put(fr.url_to_basename, dedupe_key, base),
                                      !.updates = Put(fr.updates, key, base)]
                     ELSE [fr EXCEPT !.pulls = started, !.at = "raised"]

\* most unbuilt keys
MaxKeys == 3

Digits == <<"1", "2", "3", "4", "5", "6", "7", "8", "9">>
KeyName(n) == <<"k", Digits[n]>>

OutDir == <<"/", "D">>

\* image references: V_a, V_b and V_d name the same image (in other case,
\* with and without the scheme), V_c another image with the basename of V_b
V_a == S_docker \o <<"r", "/", "I", "m", ":", "T">>
V_b == <<"r", "/", "i", "m", ":", "t">>
V_c == <<"q", "/", "i", "m", ":", "t">>
V_d == S_docker \o V_b
V_e == <<"r", "/", "x", ":", "1">>

\* a value of dockers.json: a reference, or something that is no string
DockerValues == {JStr(V_a), JStr(V_b), JStr(V_c), JStr(V_d), JStr(V_e), JNum(1)}

B_ImT == <<"I", "m", "_", "T">>
B_imt == <<"i", "m", "_", "t">>

\* .sif files that can be in the output directory before the call
SifUniverse == {PathJoin(OutDir, B_ImT \o S_sif), PathJoin(OutDir, B_imt \o S_sif)}

InitPull ==
    /\ Idle
    /\ \E n \in 1..MaxKeys, dry_run \in BOOLEAN, files \in SUBSET SifUniverse :
       \E vals \in [1..n -> DockerValues] :
           /\ call = [f |-> "pull_sifs_for_keys",
                      unbuilt_keys |-> [m \in 1..n |-> KeyName(m)],
                      dockers_json |-> [key \in {KeyName(m) : m \in 1..n} |->
                                           vals[CHOOSE m \in 1..n : KeyName(m) = key]],
                      out_dir |-> OutDir, dry_run |-> dry_run, files |-> files]
           /\ frame = [at |-> "entry", n |-> 1, url_to_basename |-> <<>>,
                       updates |-> <<>>, files |-> files, made_dir |-> FALSE,
                       pulls |-> <<>>]
    /\ ret = [done |-> FALSE, v |-> JNull]

\* lines 132-134
PullEnter ==
    /\ call.f = "pull_sifs_for_keys"
    /\ frame.at = "entry"
    /\ frame' = [frame EXCEPT !.at = "loop", !.made_dir = ~call.dry_run]
    /\ UNCHANGED <<args, fs, dirs, log, pc, exit_code, locals, fs0, dirs0, attempt, call, ret>>

\* lines 136-162: one iteration; a failed pull raises CalledProcessError
PullIterate ==
    /\ call.f = "pull_sifs_for_keys"
    /\ frame.at = "loop"
    /\ frame.n <= Len(call.unbuilt_keys)
    /\ \E pullOk \in BOOLEAN :
           frame' = pull_iteration(frame, call.unbuilt_keys[frame.n], call.dockers_json,
                                   call.out_dir, call.dry_run, pullOk)
    /\ UNCHANGED <<args, fs, dirs, log, pc, exit_code, locals, fs0, dirs0, attempt, call, ret>>

\* line 163
PullReturn ==
    /\ call.f = "pull_sifs_for_keys"
    /\ frame.at = "loop"
    /\ frame.n > Len(call.unbuilt_keys)
    /\ frame' = [frame EXCEPT !.at = "returned"]
    /\ ret' = [done |-> TRUE, v |-> frame.updates]
    /\ UNCHANGED <<args, fs, dirs, log, pc, exit_code, locals, fs0, dirs0, attempt, call>>

SpecPull == InitPull /\ [][PullEnter \/ PullIterate \/ PullReturn]_vars

(***************************************************************************)
(* Properties                                                              *)
(***************************************************************************)
LogIdx == 1..Len(log)

\* the primary document on disk and the URI its exclusion key names
PrimaryOnDisk == fs[args.singlesample].v
Running == pc \notin {"start", "config_error"}
RealRun == ~args.dry_run /\ ~args.skip_download

\* C1: skip-if-exists: no copy is started for a transfer whose destination
\* file already existed when the run started, so a second run over the files
\* of a first one starts no copy.
C1_SkipIfExists ==
    \A n \in LogIdx : log[n].cmd = "cp" => log[n].dst \notin DOMAIN fs0

\* C2: a run with --dry-run starts no external process and creates, writes
\* or modifies no file or directory.
C2_DryRunNoEffects ==
    args.dry_run => (log = <<>> /\ fs = fs0 /\ dirs = dirs0)

\* C3: the manifest M named by the exclusion key is never expanded: gsutil
\* cat is never started on it, no local manifest is written for it, it gets
\* no expanded-list mapping, and it stays mapped to its Path-Mapper path.
C3_ExclusionRule ==
    Running =>
        LET M == DictGet(PrimaryOnDisk, K_excl)
        IN  (M.t = "str" /\ StartsWith(M.v, S_gs)) =>
              /\ \A n \in LogIdx :
                     log[n].cmd \in {"cat", "write_list"} => log[n].src # M.v
              /\ M.v \notin DOMAIN list_mappings
              /\ ~(pc = "items" /\ gs_uris[i] = M.v)
              /\ M.v \in DOMAIN uri_to_local
              /\ uri_to_local[M.v] =
                     IF args.mirror THEN PathJoin(args.dest, Drop(M.v, 5))
                     ELSE PathJoin(args.dest, PathName(M.v))

\* C3 witness: a finished mirror run whose excluded manifest is also a leaf of
\* the document's input list, while another manifest was expanded.
C3_Witness ==
    /\ pc = "done"
    /\ args.mirror
    /\ DictGet(PrimaryOnDisk, K_excl) = JStr(L_a1)
    /\ DictGet(PrimaryOnDisk, <<"i", "n">>).v[1] = JStr(L_a1)
    /\ L_a2 \in DOMAIN list_mappings

\* C4 (as claimed): a failed gsutil cp or gsutil cat is the last effect of the
\* run, which ends with a non-zero status.
C4_FetchErrorsFatal ==
    \A n \in LogIdx :
        (log[n].cmd \in {"cp", "cat"} /\ ~log[n].ok) =>
            (pc = "fetch_error" /\ exit_code > 0 /\ n = Len(log))

\* C4 (amended): a failed gsutil cp is the last effect of the run, which ends
\* with a non-zero status; a run ends that way only on a failed copy; and the
\* files copied or written before are still there.
C4_CopyErrorsFatal ==
    /\ \A n \in LogIdx :
           (log[n].cmd = "cp" /\ ~log[n].ok) =>
               (pc = "fetch_error" /\ exit_code > 0 /\ n = Len(log))
    /\ pc = "fetch_error" =>
           (log # <<>> /\ log[Len(log)].cmd = "cp" /\ ~log[Len(log)].ok)
    /\ \A n \in LogIdx :
           (log[n].cmd \in {"cp", "write_list"} /\ log[n].ok) => log[n].dst \in DOMAIN fs

\* C4 witness: a copy failed after an item was copied and a local manifest
\* was written.
C4_Witness ==
    /\ pc = "fetch_error"
    /\ \E n \in LogIdx : log[n].cmd = "write_list"
    /\ \E n \in LogIdx : log[n].cmd = "cp" /\ log[n].ok /\ log[n].why = "item"

\* the manifests of the primary document that are to be expanded
Expandable ==
    {u \in SeqRange(gs_uris) : is_list_uri(u) /\ JStr(u) # DictGet(PrimaryOnDisk, K_excl)}

\* C5: a failed gsutil cat skips that manifest only: nothing of it is copied
\* or written or mapped, the other URIs are still processed, the targets are
\* still rewritten, and the run does not end with an error because of it.
C5_ManifestReadFailureNonFatal ==
    \A n \in LogIdx :
        (log[n].cmd = "cat" /\ ~log[n].ok) =>
            /\ log[n].src \notin DOMAIN list_mappings
            /\ \A q \in LogIdx : log[q].cmd = "write_list" => log[q].src # log[n].src
            /\ ~(pc = "items" /\ gs_uris[i] = log[n].src)
            /\ n < Len(log) => log[n + 1].why \in {"list", "top", "update", "samples"}
                               /\ log[n + 1].cmd # "write_list"
            /\ n = Len(log) => pc # "fetch_error"
            /\ pc \in {"toplevel", "update", "done"} =>
                   \A u \in Expandable : \E q \in LogIdx : log[q].cmd = "cat" /\ log[q].src = u
            /\ (pc = "done" /\ RealRun) =>
                   \A u \in SeqRange(gs_uris) :
                       ~TopPassedOver(u, args) =>
                           \E q \in LogIdx : log[q].cmd = "cp" /\ log[q].src = u /\ log[q].ok
            /\ pc = "done" =>
                   /\ exit_code = 0
                   /\ ~args.dry_run =>
                          \A t \in SeqRange(args.update_jsons) :
                              \E q \in (n + 1)..Len(log) :
                                  log[q].cmd = "write_json" /\ log[q].dst = t

\* C5 witness: a finished real run in which one manifest could not be read
\* and a later one was expanded and its items copied.
C5_Witness ==
    /\ pc = "done"
    /\ RealRun
    /\ \E n \in LogIdx :
           /\ log[n].cmd = "cat" /\ ~log[n].ok
           /\ \E q \in (n + 1)..Len(log) : log[q].cmd = "cat" /\ log[q].ok
           /\ \E q \in (n + 1)..Len(log) : log[q].cmd = "cp" /\ log[q].why = "item"

IsPrimaryCopy(e) == e.cmd = "cp" /\ e.why \in {"top", "item"}

\* C6: after each successful copy of a source ending in .gz there is exactly
\* one existence check, of source.tbi; when it says the object exists exactly
\* one copy of source.tbi to destination.tbi follows; otherwise no copy of a
\* companion follows and no error is raised.  No other existence check and no
\* other companion copy is made.
C6_CompanionFetch ==
    /\ \A n \in LogIdx :
           (IsPrimaryCopy(log[n]) /\ log[n].ok) =>
               IF EndsWith(log[n].src, S_gz)
               THEN /\ n < Len(log)
                    /\ log[n + 1].cmd = "stat"
                    /\ log[n + 1].src = log[n].src \o S_tbi
                    /\ IF log[n + 1].out = "exists"
                       THEN /\ n + 1 < Len(log)
                            /\ log[n + 2].cmd = "cp" /\ log[n + 2].why = "tbi"
                            /\ log[n + 2].src = log[n].src \o S_tbi
                            /\ log[n + 2].dst = log[n].dst \o S_tbi
                            /\ n + 2 < Len(log) => log[n + 3].why # "tbi"
                       ELSE /\ n + 1 < Len(log) => log[n + 2].why # "tbi"
                            /\ n + 1 = Len(log) => pc # "fetch_error"
               ELSE n < Len(log) => log[n + 1].why # "tbi"
    /\ \A n \in LogIdx :
           log[n].why = "tbi" =>
               /\ n > 1
               /\ log[n].cmd = "stat" => (IsPrimaryCopy(log[n - 1]) /\ log[n - 1].ok)
               /\ log[n].cmd = "cp" => (log[n - 1].cmd = "stat" /\ log[n - 1].out = "exists")

\* C6 witness: a finished run in which one check found the companion, which
\* was copied, and another check failed.
C6_Witness ==
    /\ pc = "done"
    /\ \E n \in LogIdx : log[n].cmd = "stat" /\ log[n].out = "exists"
    /\ \E n \in LogIdx : log[n].cmd = "stat" /\ log[n].out = "error"
    /\ \E n \in LogIdx : log[n].cmd = "cp" /\ log[n].why = "tbi" /\ log[n].ok

IsHeavy(src) == EndsWith(src, S_cram) \/ EndsWith(src, S_crai)

\* the state right after write_local_list wrote the manifest of a real run
\* without --download-cram
JustWroteList ==
    /\ log # <<>>
    /\ log[Len(log)].cmd = "write_list"
    /\ ~args.download_cram

\* the lines of the local manifest just written, and the normalized entries
\* of the remote one
WrittenLines == SplitLines(fs[log[Len(log)].dst].v)
RemoteEntries == normalize_list_lines(RemoteText(log[Len(log)].src))

\* no manifest entry ending in .cram or .crai is copied without --download-cram
HeavyNeverCopied ==
    ~args.download_cram =>
        \A n \in LogIdx : (log[n].cmd = "cp" /\ log[n].why = "item") => ~IsHeavy(log[n].src)

\* C7 (as claimed): a skipped .cram/.crai entry is not copied, and its line in
\* the rewritten manifest is its original gs:// reference.
C7_HeavyKeepsRemoteRef ==
    /\ HeavyNeverCopied
    /\ JustWroteList =>
           \A q \in 1..Len(RemoteEntries) :
               IsHeavy(RemoteEntries[q]) => WrittenLines[q] = RemoteEntries[q]

\* C7 (amended): a skipped .cram/.crai entry is not copied, and its line in
\* the rewritten manifest is its planned local path
\* dest_root/stem(manifest)/basename(entry), as for every other gs:// entry.
C7_HeavyWrittenAsLocalPath ==
    /\ HeavyNeverCopied
    /\ JustWroteList =>
           /\ Len(WrittenLines) = Len(RemoteEntries)
           /\ \A q \in 1..Len(RemoteEntries) :
                  IsHeavy(RemoteEntries[q]) =>
                      WrittenLines[q] =
                          args.dest \o S_slash
                            \o PathStem(PathName(log[Len(log)].src)) \o S_slash
                            \o PathName(RemoteEntries[q])

\* C7 witness: a real run has just written the manifest that lists a .crai.
C7_Witness ==
    /\ JustWroteList
    /\ RealRun
    /\ \E q \in 1..Len(RemoteEntries) : IsHeavy(RemoteEntries[q])
    /\ \E n \in LogIdx : log[n].cmd = "cp" /\ log[n].why = "item"

\* C8: when the primary document or a target document is missing the run
\* ends with a non-zero status, having started no process and changed no file
\* or directory, and it never goes further.
C8_ConfigErrorBeforeMutation ==
    /\ pc = "config_error" =>
           (exit_code > 0 /\ log = <<>> /\ fs = fs0 /\ dirs = dirs0)
    /\ (args.singlesample \notin DOMAIN fs0
        \/ \E t \in SeqRange(args.update_jsons) : t \notin DOMAIN fs0) =>
           (pc \in {"start", "config_error"} /\ log = <<>> /\ fs = fs0 /\ dirs = dirs0)

\* C8 witness: the run ended on a missing target while the primary exists.
C8_Witness ==
    /\ pc = "config_error"
    /\ args.singlesample \in DOMAIN fs
    /\ RefPanelPath \notin DOMAIN fs

\* C10 (as claimed): when the mapping is handed to the rewriter every key is
\* a gs:// leaf of the primary document and no two keys share a local path.
C10_MappingInjective ==
    pc = "update" =>
        /\ DOMAIN uri_to_local \subseteq find_gs_uris(PrimaryOnDisk)
        /\ \A a, b \in DOMAIN uri_to_local : a # b => uri_to_local[a] # uri_to_local[b]

\* C10 (amended): every key is a gs:// leaf of the primary document; two keys
\* share a local path only if their object paths have the same basename, and
\* in flat layout whenever they have.
C10_MappingUniquePerBasename ==
    pc = "update" =>
        /\ DOMAIN uri_to_local \subseteq find_gs_uris(PrimaryOnDisk)
        /\ \A a \in DOMAIN uri_to_local : StartsWith(a, S_gs)
        /\ \A a, b \in DOMAIN uri_to_local :
               /\ PathName(a) # PathName(b) => uri_to_local[a] # uri_to_local[b]
               /\ (~args.mirror /\ PathName(a) = PathName(b)) =>
                      uri_to_local[a] = uri_to_local[b]
               /\ PathName(uri_to_local[a]) = PathName(a)

\* C10 witness: a flat mapping is handed over that holds two objects of the
\* same basename from different buckets.
C10_Witness ==
    /\ pc = "update"
    /\ ~args.mirror
    /\ {U_x1, U_x2} \subseteq DOMAIN uri_to_local

\* y is x with the string leaves that are keys of m replaced by m's values:
\* same kinds, same lengths, same keys in the same order, other leaves equal
RECURSIVE IsRewriteOf(_, _, _)
IsRewriteOf(y, x, m) ==
    IF x.t \in {"dict", "list"}
    THEN /\ y.t = x.t
         /\ Len(y.v) = Len(x.v)
         /\ \A n \in 1..Len(x.v) :
                IF x.t = "dict"
                THEN y.v[n][1] = x.v[n][1] /\ IsRewriteOf(y.v[n][2], x.v[n][2], m)
                ELSE IsRewriteOf(y.v[n], x.v[n], m)
    ELSE IF x.t = "str" /\ x.v \in DOMAIN m
    THEN y.t = "str" /\ y.v = m[x.v]
    ELSE y = x

\* C9: replace_uris_in_obj(doc, m) has the structure and keys of doc, every
\* string leaf that is a key of m replaced by m's value and every other leaf
\* unchanged; with the empty mapping it returns doc.
C9_RewriterCorrect ==
    ret.done =>
        /\ IsRewriteOf(ret.v, call.obj, call.mapping)
        /\ DOMAIN call.mapping = {} => ret.v = call.obj

\* C9 witness: a leaf two levels down, under a key that is itself a key of
\* the mapping, was replaced, once, and its sibling was not.
C9_Witness ==
    /\ ret.done
    /\ call.obj = JDict(<< <<R_A, JList(<<JStr(R_A), JNum(7)>>)>> >>)
    /\ call.mapping = (R_A :> R_B) @@ (R_B :> R_P)
    /\ ret.v = JDict(<< <<R_A, JList(<<JStr(R_B), JNum(7)>>)>> >>)

(***************************************************************************)
(* The manifest functions (specification SpecManifest)                     *)
(***************************************************************************)
ManifestDone == call.f = "expand_manifest" /\ ret.done

\* a raw line without the spaces around it, by the positions of its first
\* and last character that is no space
TrimIdx(s) ==
    LET I == {n \in 1..Len(s) : s[n] # " "}
    IN  IF I = {} THEN <<>>
        ELSE SubSeq(s, CHOOSE a \in I : \A b \in I : a <= b,
                       CHOOSE a \in I : \A b \in I : a >= b)

IsEntry(s) == s # <<>> /\ s[1] # "#"

\* the entries of a manifest made of the raw lines `raws`
ExpectedLines(raws) == SelectSeq([n \in 1..Len(raws) |-> TrimIdx(raws[n])], IsEntry)

\* what an entry becomes in the local manifest gs://.../<stem>.list is rewritten to
ExpectedLocalLine(e, dest_root, stem) ==
    IF StartsWith(e, S_gs)
    THEN dest_root \o S_slash \o stem \o S_slash \o PathName(Drop(e, 5))
    ELSE e

\* every line followed by a newline
RECURSIVE Terminated(_)
Terminated(lines) ==
    IF lines = <<>> THEN <<>>
    ELSE Head(lines) \o <<"\n">> \o Terminated(Tail(lines))

ExpectedLocalLines ==
    LET es == ExpectedLines(call.raws)
    IN  [n \in 1..Len(es) |-> ExpectedLocalLine(es[n], call.dest_root, call.stem)]

ManifestWrittenAs(content) ==
    LET target == call.dest_root \o S_slash \o call.stem \o S_list
    IN  /\ ret.v.target = target
        /\ target \in DOMAIN ret.v.w.fs
        /\ ret.v.w.fs[target] = FText(content)

\* C11 as stated: the local manifest written at dest_root/basename(manifest)
\* holds one newline-terminated line per normalized entry of the remote
\* manifest and nothing else, in order, a gs:// entry as
\* dest_root/stem/basename(entry) and any other entry unchanged
C11_OneLinePerEntry ==
    (ManifestDone /\ ~call.dry_run) => ManifestWrittenAs(Terminated(ExpectedLocalLines))

\* C11, amended: the same for a manifest with at least one normalized entry;
\* a manifest with none is written as the single empty line "\n"; a dry run
\* writes no local manifest
C11_ManifestRewritten ==
    ManifestDone =>
        IF call.dry_run THEN ret.v.w.fs = <<>>
        ELSE ManifestWrittenAs(IF ExpectedLocalLines = <<>> THEN <<"\n">>
                               ELSE Terminated(ExpectedLocalLines))

\* a padded gs:// entry and an opaque one of c.d.list, written
C11_Witness ==
    /\ ManifestDone /\ ~call.dry_run
    /\ call.stem = <<"c", ".", "d">>
    /\ call.raws = <<RL_comment, RL_padded, RL_opaque>>
    /\ ret.v.w.fs[ret.v.target].v =
           DestRoot \o <<"/", "c", ".", "d", "/", "x">> \o S_gz \o <<"\n", "S", "1", "\n">>

\* C13: normalize_list_lines returns, in order, exactly the trimmed lines
\* that are non-empty after trimming and do not start with "#" after trimming
C13_NormalizeExact ==
    ManifestDone => ret.v.lines = ExpectedLines(call.raws)

\* a comment line, a blank line, a padded gs:// line and an opaque line
C13_Witness ==
    /\ ManifestDone
    /\ call.raws = <<RL_comment, RL_blank, RL_padded, RL_opaque>>
    /\ ret.v.lines = <<S_gs \o <<"b", "/", "x">> \o S_gz, <<"S", "1">>>>

(***************************************************************************)
(* The path mapper (specification SpecPathMap)                             *)
(***************************************************************************)
\* C12: for gs://<c1>/.../<cn>, make_dest_path_for_uri returns dest_root/<cn>
\* when mirror is false and dest_root/<c1>/.../<cn> when mirror is true
C12_PathMapper ==
    (call.f = "make_dest_path_for_uri" /\ ret.done) =>
        ret.v = call.dest_root \o S_slash \o
                (IF call.mirror THEN JoinSlash(call.comps)
                 ELSE call.comps[Len(call.comps)])

\* gs://bucket/a/b/c.txt under "root": root/bucket/a/b/c.txt mirrored
C12_Witness ==
    /\ call.f = "make_dest_path_for_uri" /\ ret.done
    /\ call.comps = <<PC_bucket, PC_a, PC_b, PC_ctxt>>
    /\ call.dest_root = RelRoot
    /\ call.mirror
    /\ ret.v = RelRoot \o S_slash \o PC_bucket \o <<"/", "a", "/", "b", "/">> \o PC_ctxt

(***************************************************************************)
(* Order of the phases (specification Spec)                                *)
(***************************************************************************)
Targets == {args.update_jsons[n] : n \in 1..Len(args.update_jsons)}

IsTargetWrite(e) == e.cmd \in {"backup", "write_json"}

\* the path holds what it held when the run started, or is still absent
AsAtStart(p) ==
    /\ p \in DOMAIN fs <=> p \in DOMAIN fs0
    /\ p \in DOMAIN fs => fs[p] = fs0[p]

C14_State ==
    \* no target is written and no .bak made before the update phase
    /\ (\E n \in LogIdx : IsTargetWrite(log[n])) => pc \in {"update", "done"}
    \* so until then, and after a failed copy, the targets are as they were
    /\ pc \notin {"update", "done"} =>
           \A uj \in Targets : AsAtStart(uj) /\ AsAtStart(uj \o S_bak)
    \* a .bak is made only with --backup, immediately before its document is written
    /\ \A n \in LogIdx :
           log[n].cmd = "backup" =>
               /\ args.backup
               /\ log[n].dst = log[n].src \o S_bak
               /\ n + 1 \in LogIdx
               /\ log[n + 1].cmd = "write_json"
               /\ log[n + 1].src = log[n].src
    /\ \A n \in LogIdx :
           (log[n].cmd = "write_json" /\ args.backup) =>
               /\ n > 1
               /\ log[n - 1].cmd = "backup"
               /\ log[n - 1].src = log[n].src

\* the step that backs a document up leaves in the .bak what the document
\* held before the step
C14_BackupStep ==
    (/\ Len(log') = Len(log) + 2
     /\ log'[Len(log) + 1].cmd = "backup") =>
        LET uj == log'[Len(log) + 1].src
        IN  /\ uj \in DOMAIN fs
            /\ fs'[uj \o S_bak] = fs[uj]

\* C14: no target document is written and no .bak created until every
\* manifest expansion and every transfer of the run is over; after a failed
\* copy the targets hold their original content; with --backup each .bak is
\* created immediately before its document is overwritten and holds what the
\* document held just before that write
C14_PhaseOrder == [](C14_State) /\ [][C14_BackupStep]_vars

\* a run with --backup that copied something and then backed up a document
\* whose rewritten content differs from its backup
C14_Witness ==
    \E n, m \in LogIdx :
        /\ n < m
        /\ log[n].cmd = "cp" /\ log[n].ok
        /\ log[m].cmd = "backup"
        /\ fs[log[m].dst] # fs[log[m].src]

(***************************************************************************)
(* Manifests of the primary document that are not expanded                 *)
(* (specification Spec)                                                    *)
(***************************************************************************)
\* the .list URIs of the primary document that are not expanded: the excluded
\* one, and those whose gsutil cat failed
Unexpanded ==
    {u \in SeqRange(gs_uris) :
        /\ is_list_uri(u)
        /\ \/ ~ShouldExpand(u, exclude_list_uri)
           \/ \E n \in LogIdx : log[n].cmd = "cat" /\ log[n].src = u /\ ~log[n].ok}

\* mapped to its Path-Mapper path, and substituted in the targets of a
\* finished run that is no dry run
MappedAndSubstituted(u) ==
    /\ u \in DOMAIN uri_to_local
    /\ u \notin DOMAIN list_mappings
    /\ uri_to_local[u] = args.dest \o S_slash \o
                         (IF args.mirror THEN Drop(u, 5) ELSE PathName(u))
    /\ (pc = "done" /\ ~args.dry_run) =>
           \A uj \in Targets :
               /\ fs[uj].v = replace_uris_in_obj(fs0[uj].v, uri_to_local)
               /\ u \notin find_gs_uris(fs[uj].v)

ImageOf(url) ==
    IF url \in {V_a, V_b, V_d} THEN <<"r", "/", "i", "m", ":", "t">>
    ELSE IF url = V_c THEN <<"q", "/", "i", "m", ":", "t">>
    ELSE <<"r", "/", "x", ":", "1">>

BasenameOf(url) ==
    IF url = V_a THEN B_ImT
    ELSE IF url \in {V_b, V_c, V_d} THEN B_imt
    ELSE <<"x", "_", "1">>

InPull == call.f = "pull_sifs_for_keys" /\ ~call.dry_run

\* the first of the unbuilt keys whose value names the image of `key`
FirstKeySharing(key) ==
    LET ks == call.unbuilt_keys
        I  == {m \in 1..Len(ks) :
                  /\ call.dockers_json[ks[m]].t = "str"
                  /\ ImageOf(call.dockers_json[ks[m]].v) = ImageOf(call.dockers_json[key].v)}
    IN  ks[CHOOSE a \in I : \A b \in I : a <= b]

\* C16: without --dry-run, apptainer pull is started at most once per image
\* (references compared without the docker:// scheme and in lower case), never
\* for a .sif that is already there, and every key naming the same image gets
\* the basename derived from the first such key
C16_PullDedup ==
    InPull =>
        /\ \A a, b \in 1..Len(frame.pulls) :
               a # b => ImageOf(frame.pulls[a].url) # ImageOf(frame.pulls[b].url)
        /\ \A a \in 1..Len(frame.pulls) :
               /\ frame.pulls[a].sif_path \notin call.files
               /\ \A b \in 1..(a - 1) : frame.pulls[b].sif_path # frame.pulls[a].sif_path
               /\ frame.pulls[a].sif_path =
                      call.out_dir \o S_slash \o BasenameOf(frame.pulls[a].url) \o S_sif
        /\ \A key \in DOMAIN frame.updates :
               frame.updates[key] = BasenameOf(call.dockers_json[FirstKeySharing(key)].v)

\* three keys: the first two name one image in different case, the third
\* another image; two pulls, and the second key gets the first one's basename
C16_Witness ==
    /\ InPull /\ ret.done
    /\ Len(call.unbuilt_keys) = 3
    /\ call.dockers_json[KeyName(1)] = JStr(V_a)
    /\ call.dockers_json[KeyName(2)] = JStr(V_b)
    /\ call.dockers_json[KeyName(3)] = JStr(V_c)
    /\ Len(frame.pulls) = 2
    /\ ret.v[KeyName(1)] = B_ImT
    /\ ret.v[KeyName(2)] = B_ImT
    /\ ret.v[KeyName(3)] = B_imt

=============================================================================
